---- MODULE Spec2Model ----
(***************************************************************************)
(* OneSlackSSVM (src/learners/one_slack_ssvm.py): 1-slack cutting-plane    *)
(* training of a structural SVM.  One behaviour is one OneSlackSSVM object *)
(* from construction through one call of fit.                              *)
(*                                                                         *)
(* Arithmetic is exact.  Every real number of the program is kept as an    *)
(* integer numerator over a denominator that is fixed for the fit call,    *)
(* with n = number of (x, y) pairs that zip(X, Y) yields:                  *)
(*   dpsi_mean, loss_mean      numerator / n                               *)
(*   multipliers a             numerator / AlphaDen                        *)
(*   w = dot(a, psi_matrix)    numerator / (AlphaDen * n)                  *)
(*   slack, slack_tmp          numerator / (AlphaDen * n * n)              *)
(*   objective                 numerator / (2 * AlphaDen^2 * n^2)          *)
(* so  dpsi_mean /= len(dpsis)  is the change of denominator from 1 to n.  *)
(***************************************************************************)
EXTENDS Integers, Sequences, FiniteSets, TLC

\* ------------------------------------------------------------------ bounds
\* len(X) and len(Y) range over 0..MaxSamples.
MaxSamples == 2
\* max_iter ranges over 0..MaxIter.
MaxIter == 3
\* The store never holds more: len(warm start) + max_iter <= MaxStore.
MaxStore == 3
\* The solver's multipliers are multiples of 1 / AlphaDen.
AlphaDen == 2
\* problem.size_psi, the dimension of the feature map.
size_psi == 2

\* ------------------------------------------------------- program constants
\* C=1.0, the regularization parameter (sum of the multipliers).
C == 1
\* slack < 1e-5 and slack - slack_tmp < -1e-5: 1e-5 = 1 / EpsInv.
EpsInv == 100000
\* tol=0.0001 = 1 / TolInv.
TolInv == 10000
\* The constructor's defaults.
DefaultCheckConstraints == TRUE
DefaultBreakOnBad == TRUE

\* ----------------------------------------------------------------- helpers
RECURSIVE SumSeq(_)
SumSeq(s) == IF s = <<>> THEN 0 ELSE Head(s) + SumSeq(Tail(s))

Min(a, b) == IF a < b THEN a ELSE b

Max(a, b) == IF a > b THEN a ELSE b

Last(s) == s[Len(s)]

\* np.dot of two vectors.
Dot(u, v) == SumSeq([k \in 1..Min(Len(u), Len(v)) |-> u[k] * v[k]])

\* np.zeros(self.problem.size_psi)
Zeros == [k \in 1..size_psi |-> 0]

\* ------------------------------------------------- the structured problem
\* A multiclass problem: the collaborator the learner is constructed with.
Labels == {1, 2}

\* A labeling as inference returns it: plain, or (relaxed inference) a tuple
\* whose first entry is the labeling and whose second holds pairwise marginals.
Plain(l) == [label |-> l, pairwise |-> FALSE]

Outputs == {Plain(l) : l \in Labels} \cup {[label |-> 2, pairwise |-> TRUE]}

\* The training set: X[i] is a scalar feature, Y[i] the true label.
X(i) == 1

Y(i) == ((i - 1) % 2) + 1

\* problem.psi(x, y): the joint feature map, of dimension size_psi.
psi(x, y) == [k \in 1..size_psi |-> IF k = y THEN x ELSE 0]

\* problem.loss(y, y_hat): the 0/1 loss.
loss(y, y_hat) == IF y = y_hat THEN 0 ELSE 1

\* unwrap_pairwise(y): y[0] of a tuple, y itself otherwise.
unwrap_pairwise(y) == y.label

\* find_constraint(problem, x, y, w) for the output y_hat that loss-augmented
\* inference returned: (y_hat, delta_psi, slack, loss).  wnum is w's numerator
\* over wden.
find_constraint(i, wnum, wden, y_hat) ==
    LET l == unwrap_pairwise(y_hat)
        delta_psi == [k \in 1..size_psi |-> psi(X(i), Y(i))[k] - psi(X(i), l)[k]]
        ls == loss(Y(i), l)
    IN  [y_hat |-> y_hat,
         delta_psi |-> delta_psi,
         slack |-> Max(ls * wden - Dot(wnum, delta_psi), 0),
         loss |-> ls,
         w |-> wnum]

\* ------------------------------------------------------------------- state
VARIABLES
    \* constructor arguments (self.max_iter, self.check_constraints, self.break_on_bad)
    max_iter, check_constraints, break_on_bad,
    \* fit's arguments: len(X), len(Y); constraints is the list the caller passed
    \* (fit appends to that very list) or fit's own empty list, and warm is what
    \* that list held when fit was called
    n_samples, Y_len, constraints, warm,
    \* fit's position and locals
    pc, w, iteration, loss_curve, objective_curve,
    \* the Parallel fan-out: examples still searched, what each search returned
    \* (by example), the order in which the searches completed (kept until the
    \* results are consumed), and the list that Parallel handed back
    pending, results, order, new_constraint,
    \* the aggregated working constraint of the iteration
    Ys, dpsi_mean, loss_mean, slack,
    \* which return of _check_bad_constraint was taken in this iteration
    reject_reason,
    \* _solve_1_slack_qp: the solver's latest answer, and calls made for this QP
    solution, solver_calls,
    \* attributes of self, and the set of those assigned so far
    alphas, old_solution, self_w, self_constraints_, assigned,
    \* problem.inference_calls, and the exception that left fit (if any)
    inference_calls, error

vars == <<max_iter, check_constraints, break_on_bad, n_samples, Y_len, constraints,
          warm, pc, w, iteration, loss_curve, objective_curve, pending, results,
          order, new_constraint, Ys, dpsi_mean, loss_mean, slack, reject_reason, solution,
          solver_calls, alphas, old_solution, self_w, self_constraints_, assigned,
          inference_calls, error>>

config_vars == <<max_iter, check_constraints, break_on_bad>>

arg_vars == <<n_samples, Y_len, warm>>

fanout_vars == <<pending, results, order, new_constraint>>

agg_vars == <<Ys, dpsi_mean, loss_mean, slack>>

self_vars == <<alphas, old_solution, self_w, self_constraints_, assigned>>

\* zip(X, Y) stops at the shorter of the two.
n_pairs == Min(n_samples, Y_len)

\* Denominators of w and of a slack (see the head of the module).
WDen == AlphaDen * n_pairs

SlackDen == AlphaDen * n_pairs * n_pairs

NoSolution == [status |-> "none", x |-> <<>>, objective |-> [num |-> 0, reg |-> 0], eps |-> 0]

\* ------------------------------------------------- aggregation (fit, 223-232)
\* A variant that hands the results back in the order of completion.
ParallelResultsAsCompleted(returned, completed) ==
    [k \in 1..Len(completed) |-> returned[completed[k]]]

\* Parallel(...)(...) returns the results as a list in the order of its inputs,
\* whatever the order in which the searches completed.
ParallelResults(returned, completed) == [i \in 1..Len(completed) |-> returned[i]]

\* Ys, dpsis, violations, losses = zip(*new_constraint); the sums that the
\* means are numerators of.
YsOf(res) == [i \in 1..Len(res) |-> res[i].y_hat]

DpsiSum(res) == [k \in 1..size_psi |-> SumSeq([i \in 1..Len(res) |-> res[i].delta_psi[k]])]

LossSum(res) == SumSeq([i \in 1..Len(res) |-> res[i].loss])

\* slack = loss_mean - np.dot(w, dpsi_mean), numerator over AlphaDen * n * n.
SlackOf(lossnum, wnum, dpsinum, n) == lossnum * AlphaDen * n - Dot(wnum, dpsinum)

\* A working constraint as fit stores it: (Ys, dpsi_mean, loss_mean).
Constraint(ys, dpsi, ls) == [Ys |-> ys, dpsi_mean |-> dpsi, loss_mean |-> ls]

\* The constraint that a fit over the same n examples stores for the plain
\* outputs ys: what a caller passes back as a warm start.
WarmConstraint(ys) ==
    LET res == [i \in 1..Len(ys) |-> find_constraint(i, Zeros, 1, Plain(ys[i]))]
    IN  Constraint(YsOf(res), DpsiSum(res), LossSum(res))

\* The lists a caller may pass: none, one constraint, or two (which may repeat
\* the same outputs: fit does not look at what it is given).
WarmStarts(n) ==
    {<<>>} \cup (IF n = 0 THEN {}
                 ELSE {<<WarmConstraint(ys)>> : ys \in [1..n -> Labels]}
                      \cup {<<WarmConstraint(ys), WarmConstraint(zs)>> :
                               ys \in [1..n -> Labels], zs \in [1..n -> Labels]})

\* ----------------------------------- _check_bad_constraint (lines 152-179)
\* A variant that compares the outputs as returned, without unwrapping them.
SameOutputsWrapped(ys, old_ys) ==
    \A k \in 1..Min(Len(ys), Len(old_ys)) : ys[k] = old_ys[k]

\* np.all([np.all(y == y_) for y, y_ in zip(Ys_plain, old_Ys)]): zip stops at
\* the shorter list; the outputs of both sides are unwrapped first.
SameOutputs(ys, old_ys) ==
    \A k \in 1..Min(Len(ys), Len(old_ys)) :
        unwrap_pairwise(ys[k]) = unwrap_pairwise(old_ys[k])

\* slack_tmp = max(con[2] - np.dot(w, con[1]), 0), numerator over AlphaDen*n*n.
SlackTmp(con, wnum, n) == Max(SlackOf(con.loss_mean, wnum, con.dpsi_mean, n), 0)

\* A variant that looks for a duplicate only in the constraint stored last.
CheckBadConstraintLastOnly(ys, slk, old_constraints, wnum, n) ==
    IF slk * EpsInv < AlphaDen * n * n THEN "slack"
    ELSE IF old_constraints # <<>> /\ SameOutputs(ys, Last(old_constraints).Ys)
         THEN "duplicate"
    ELSE IF /\ check_constraints
            /\ \E j \in 1..Len(old_constraints) :
                  (slk - SlackTmp(old_constraints[j], wnum, n)) * EpsInv < -(AlphaDen * n * n)
         THEN "bad_inference"
    ELSE "accept"

\* A variant that compares with the old constraints whatever check_constraints
\* says.
CheckBadConstraintAlwaysChecks(ys, slk, old_constraints, wnum, n) ==
    IF slk * EpsInv < AlphaDen * n * n THEN "slack"
    ELSE IF \E j \in 1..Len(old_constraints) : SameOutputs(ys, old_constraints[j].Ys)
         THEN "duplicate"
    ELSE IF \E j \in 1..Len(old_constraints) :
                  (slk - SlackTmp(old_constraints[j], wnum, n)) * EpsInv < -(AlphaDen * n * n)
         THEN "bad_inference"
    ELSE "accept"

\* The return that _check_bad_constraint takes: "slack" (line 154), "duplicate"
\* (line 162), "bad_inference" (lines 173-178), or "accept" (return False).
CheckBadConstraint(ys, slk, old_constraints, wnum, n) ==
    IF slk * EpsInv < AlphaDen * n * n THEN "slack"
    ELSE IF \E j \in 1..Len(old_constraints) : SameOutputs(ys, old_constraints[j].Ys)
         THEN "duplicate"
    ELSE IF /\ check_constraints
            /\ \E j \in 1..Len(old_constraints) :
                  (slk - SlackTmp(old_constraints[j], wnum, n)) * EpsInv < -(AlphaDen * n * n)
         THEN "bad_inference"
    ELSE "accept"

\* A variant that enters the debugger whatever break_on_bad says.
TracerOnBadAlways(reason) == reason = "bad_inference"

\* if self.break_on_bad: Tracer()()  (lines 175-177)
TracerOnBad(reason) == reason = "bad_inference" /\ break_on_bad

\* A variant that appends the constraint before looking at the checker's answer.
StoreAppendsRejected(reason, old_constraints, con) == Append(old_constraints, con)

\* A variant whose rejection takes the newest constraint out of the store.
StoreDropsOnReject(reason, old_constraints, con) ==
    IF reason # "accept" THEN SubSeq(old_constraints, 1, Len(old_constraints) - 1)
    ELSE Append(old_constraints, con)

\* A variant that puts an accepted constraint at the front of the store.
StoreInsertsFirst(reason, old_constraints, con) ==
    IF reason # "accept" THEN old_constraints ELSE <<con>> \o old_constraints

\* fit, lines 237-241: break on a bad constraint, append otherwise.
StoreAfterCheck(reason, old_constraints, con) ==
    IF reason # "accept" THEN old_constraints ELSE Append(old_constraints, con)

\* --------------------------------------- _solve_1_slack_qp (lines 97-150)
\* A variant that builds the QP without the constraint appended last.
psisWithoutNewest(cons) == [j \in 1..(Len(cons) - 1) |-> cons[j].dpsi_mean]

\* psis = [c[1] for c in constraints]; losses = [c[2] for c in constraints]
psis(cons) == [j \in 1..Len(cons) |-> cons[j].dpsi_mean]

losses(cons) == [j \in 1..Len(cons) |-> cons[j].loss_mean]

\* np.dot(psi_matrix, psi_matrix.T), numerators over n*n.
Gram(psi_matrix) ==
    [i \in 1..Len(psi_matrix) |->
        [j \in 1..Len(psi_matrix) |-> Dot(psi_matrix[i], psi_matrix[j])]]

\* The QP handed to the solver.  P = gram + eps * 1e-8 * I with eps = 0 on the
\* first call (line 104) and eps = 1 on the retry (lines 132-133);
\* q = -losses; G, h: all multipliers >= 0 (positive_constraint is None);
\* A, b: the multipliers sum to C.
FirstEps == 0

RetryWithoutRegularization == FirstEps

RetryEps == 1

QP(cons, eps) ==
    [P |-> [gram |-> Gram(psis(cons)), eps |-> eps],
     q |-> [j \in 1..Len(cons) |-> -losses(cons)[j]],
     n_constraints |-> Len(psis(cons))]

\* The points that satisfy G x <= h and A x = b, on the grid of multiples of
\* 1 / AlphaDen.
Feasible(m) ==
    {x \in [1..m -> 0..(C * AlphaDen)] : SumSeq(x) = C * AlphaDen}

\* What the solver may hold in 'x' when it gives up: two samples, the origin
\* (infeasible) and the vertex that puts C on the first constraint.
Iterates(m) ==
    {[j \in 1..m |-> 0], [j \in 1..m |-> IF j = 1 THEN C * AlphaDen ELSE 0]}

\* A variant that reports the value of the maximised dual, q'x negated less
\* x'Px/2, in place of the value of the minimised QP.
NegatedObjective(qp, x, n) ==
    [num |-> -(SumSeq([i \in 1..Len(x) |->
                   SumSeq([j \in 1..Len(x) |-> x[i] * x[j] * qp.P.gram[i][j]])])
               + 2 * AlphaDen * n * Dot(qp.q, x)),
     reg |-> -(qp.P.eps * Dot(x, x))]

\* solution['primal objective'] = x'Px/2 + q'x.  num is its numerator over
\* 2 * AlphaDen^2 * n^2 without the regularization; reg counts the 1e-8 * x_j^2
\* that the regularized P adds.
PrimalObjective(qp, x, n) ==
    [num |-> SumSeq([i \in 1..Len(x) |->
                 SumSeq([j \in 1..Len(x) |-> x[i] * x[j] * qp.P.gram[i][j]])])
             + 2 * AlphaDen * n * Dot(qp.q, x),
     reg |-> qp.P.eps * Dot(x, x)]

\* cvxopt.solvers.qp(P, q, G, h, A, b): an optimal answer is a feasible point.
SolverAnswers(qp, n) ==
    {[status |-> "optimal", x |-> x, objective |-> PrimalObjective(qp, x, n), eps |-> qp.P.eps]
        : x \in Feasible(qp.n_constraints)}
    \cup
    {[status |-> "unknown", x |-> x, objective |-> PrimalObjective(qp, x, n), eps |-> qp.P.eps]
        : x \in Iterates(qp.n_constraints)}

\* A variant that adds the rows of psi_matrix up without the multipliers.
WeightsUnweighted(a, psi_matrix) ==
    [k \in 1..size_psi |-> SumSeq([j \in 1..Len(psi_matrix) |-> psi_matrix[j][k]])]

\* w = np.dot(a, psi_matrix), numerator over AlphaDen * n.
WeightsOf(a, psi_matrix) ==
    [k \in 1..size_psi |-> SumSeq([j \in 1..Min(Len(a), Len(psi_matrix)) |-> a[j] * psi_matrix[j][k]])]

\* ------------------------------------------------------ fit (lines 181-267)
\* A variant whose body runs once before max_iter is looked at.
LoopRunsOnce(it, mx) == it < Max(mx, 1)

\* for iteration in xrange(self.max_iter)
LoopContinues(it, mx) == it < mx

\* A variant with the early stop switched on: stop once the last objective is
\* less than tol below the one before it (both over 2 * AlphaDen^2 * n^2, the
\* regularization term below one unit of TolInv).
TolStopEnabled(curve, it) ==
    /\ Len(curve) >= 2
    /\ LET dn == curve[Len(curve) - 1].num - curve[Len(curve)].num
           dr == curve[Len(curve) - 1].reg - curve[Len(curve)].reg
           den == 2 * AlphaDen * AlphaDen * n_pairs * n_pairs
       IN  \/ dn * TolInv < den
           \/ dn * TolInv = den /\ dr < 0

\* Lines 251-254 are commented out: no comparison of objectives stops the loop.
TolStop(curve, it) == FALSE

\* ----------------------------------------------------------------- actions
\* OneSlackSSVM(problem, max_iter, C, check_constraints, ..., break_on_bad)
Init ==
    /\ max_iter \in 0..MaxIter
    /\ check_constraints \in BOOLEAN
    /\ break_on_bad \in BOOLEAN
    /\ pc = "new"
    /\ n_samples = 0 /\ Y_len = 0 /\ constraints = <<>> /\ warm = <<>>
    /\ w = <<>> /\ iteration = 0 /\ loss_curve = <<>> /\ objective_curve = <<>>
    /\ pending = {} /\ results = <<>> /\ order = <<>> /\ new_constraint = <<>>
    /\ Ys = <<>> /\ dpsi_mean = <<>> /\ loss_mean = 0 /\ slack = 0
    /\ reject_reason = "none"
    /\ solution = NoSolution /\ solver_calls = 0
    /\ alphas = <<>> /\ old_solution = NoSolution /\ self_w = <<>>
    /\ self_constraints_ = <<>> /\ assigned = {}
    /\ inference_calls = 0 /\ error = "none"

\* fit(X, Y, constraints), lines 202-209.
FitStart ==
    /\ pc = "new"
    /\ \E nx \in 0..MaxSamples, ny \in 0..MaxSamples :
         /\ n_samples' = nx
         /\ Y_len' = ny
         /\ \E given \in WarmStarts(Min(nx, ny)) :
              /\ Len(given) + max_iter <= MaxStore
              /\ constraints' = given
              /\ warm' = given
    /\ w' = Zeros
    /\ loss_curve' = <<>>
    /\ objective_curve' = <<>>
    /\ alphas' = <<>>
    /\ assigned' = assigned \cup {"alphas"}
    /\ iteration' = 0
    /\ pc' = "loop"
    /\ UNCHANGED <<config_vars, fanout_vars, agg_vars, reject_reason, solution,
                   solver_calls, old_solution, self_w, self_constraints_,
                   inference_calls, error>>

\* Line 211, and the dispatch of one search per (x, y) of zip(X, Y), lines 218-220.
LoopHead ==
    /\ pc = "loop"
    /\ IF LoopContinues(iteration, max_iter)
       THEN /\ pc' = "fanout"
            /\ pending' = 1..n_pairs
       ELSE /\ pc' = "exit"
            /\ pending' = {}
    /\ results' = <<>>
    /\ order' = <<>>
    /\ new_constraint' = <<>>
    /\ reject_reason' = "none"
    /\ solver_calls' = 0
    /\ UNCHANGED <<config_vars, arg_vars, constraints, w, iteration, loss_curve,
                   objective_curve, agg_vars, solution, self_vars,
                   inference_calls, error>>

\* One search of the fan-out returns: find_constraint(self.problem, x, y, w) with
\* the output that the problem's loss-augmented inference gives.
FindConstraint(i) ==
    /\ pc = "fanout"
    /\ i \in pending
    /\ \E y_hat \in Outputs :
         results' = (i :> find_constraint(i, w, WDen, y_hat)) @@ results
    /\ pending' = pending \ {i}
    /\ order' = Append(order, i)
    /\ inference_calls' = inference_calls + 1
    /\ UNCHANGED <<config_vars, arg_vars, constraints, pc, w, iteration, loss_curve,
                   objective_curve, new_constraint, agg_vars, reject_reason, solution, solver_calls,
                   self_vars, error>>

\* Parallel returns once every search has; lines 223-232 aggregate.  With no
\* (x, y) pair the unpacking of zip(*new_constraint) raises ValueError.
Join ==
    /\ pc = "fanout"
    /\ pending = {}
    /\ IF n_pairs = 0
       THEN /\ pc' = "raised"
            /\ error' = "ValueError"
            /\ UNCHANGED <<agg_vars, new_constraint>>
       ELSE LET res == ParallelResults(results, order)
            IN  /\ new_constraint' = res
                /\ Ys' = YsOf(res)
                /\ dpsi_mean' = DpsiSum(res)
                /\ loss_mean' = LossSum(res)
                /\ slack' = SlackOf(LossSum(res), w, DpsiSum(res), n_pairs)
                /\ pc' = "check"
                /\ error' = error
    /\ UNCHANGED <<config_vars, arg_vars, constraints, w, iteration, loss_curve,
                   objective_curve, pending, results, order, reject_reason, solution, solver_calls,
                   self_vars, inference_calls>>

\* Lines 237-241: _check_bad_constraint, then break or append.
Check ==
    /\ pc = "check"
    /\ LET reason == CheckBadConstraint(Ys, slack, constraints, w, n_pairs)
       IN  /\ reject_reason' = reason
           /\ constraints' = StoreAfterCheck(reason, constraints,
                                             Constraint(Ys, dpsi_mean, loss_mean))
           /\ pc' = IF TracerOnBad(reason) THEN "tracer_bad"
                    ELSE IF reason # "accept" THEN "exit"
                    ELSE "qp"
    /\ order' = <<>>
    /\ UNCHANGED <<config_vars, arg_vars, w, iteration, loss_curve, objective_curve,
                   pending, results, new_constraint, agg_vars, solution,
                   solver_calls, self_vars, inference_calls, error>>

\* Tracer()() of line 177: the debugger's user continues (return True, line 178) ...
TracerBadContinue ==
    /\ pc = "tracer_bad"
    /\ pc' = "exit"
    /\ UNCHANGED <<config_vars, arg_vars, constraints, w, iteration, loss_curve,
                   objective_curve, fanout_vars, agg_vars, reject_reason, solution,
                   solver_calls, self_vars, inference_calls, error>>

\* ... or quits, and BdbQuit leaves fit.
TracerBadQuit ==
    /\ pc = "tracer_bad"
    /\ pc' = "raised"
    /\ error' = "BdbQuit"
    /\ UNCHANGED <<config_vars, arg_vars, constraints, w, iteration, loss_curve,
                   objective_curve, fanout_vars, agg_vars, reject_reason, solution,
                   solver_calls, self_vars, inference_calls>>

\* Lines 98-130: the QP over the store, and the solver's first answer.
SolveQP ==
    /\ pc = "qp"
    /\ \E sol \in SolverAnswers(QP(constraints, FirstEps), n_pairs) :
         /\ solution' = sol
         /\ pc' = IF sol.status # "optimal" THEN "qp_retry" ELSE "qp_done"
    /\ solver_calls' = solver_calls + 1
    /\ UNCHANGED <<config_vars, arg_vars, constraints, w, iteration, loss_curve,
                   objective_curve, fanout_vars, agg_vars, reject_reason, self_vars,
                   inference_calls, error>>

\* Lines 131-135: the retry on the regularized P.
RetryQP ==
    /\ pc = "qp_retry"
    /\ \E sol \in SolverAnswers(QP(constraints, RetryEps), n_pairs) :
         /\ solution' = sol
         /\ pc' = IF sol.status # "optimal" THEN "tracer_qp" ELSE "qp_done"
    /\ solver_calls' = solver_calls + 1
    /\ UNCHANGED <<config_vars, arg_vars, constraints, w, iteration, loss_curve,
                   objective_curve, fanout_vars, agg_vars, reject_reason, self_vars,
                   inference_calls, error>>

\* Tracer()() of line 137: the debugger's user continues, and line 140 goes on
\* with the solution at hand ...
TracerQPContinue ==
    /\ pc = "tracer_qp"
    /\ pc' = "qp_done"
    /\ UNCHANGED <<config_vars, arg_vars, constraints, w, iteration, loss_curve,
                   objective_curve, fanout_vars, agg_vars, reject_reason, solution,
                   solver_calls, self_vars, inference_calls, error>>

\* ... or quits, and BdbQuit leaves _solve_1_slack_qp and fit.
TracerQPQuit ==
    /\ pc = "tracer_qp"
    /\ pc' = "raised"
    /\ error' = "BdbQuit"
    /\ UNCHANGED <<config_vars, arg_vars, constraints, w, iteration, loss_curve,
                   objective_curve, fanout_vars, agg_vars, reject_reason, solution,
                   solver_calls, self_vars, inference_calls>>

\* Lines 139-150 and 243-254: record the multipliers, derive w, extend the curves.
QPRecord ==
    /\ pc = "qp_done"
    /\ alphas' = Append(alphas, solution.x)
    /\ old_solution' = solution
    /\ assigned' = assigned \cup {"old_solution"}
    /\ w' = WeightsOf(solution.x, psis(constraints))
    /\ objective_curve' = Append(objective_curve, solution.objective)
    /\ loss_curve' = Append(loss_curve, loss_mean)
    /\ iteration' = iteration + 1
    /\ pc' = IF TolStop(Append(objective_curve, solution.objective), iteration)
             THEN "exit" ELSE "loop"
    /\ solution' = NoSolution
    /\ UNCHANGED <<config_vars, arg_vars, constraints, fanout_vars, agg_vars,
                   reject_reason, solver_calls, self_w, self_constraints_,
                   inference_calls, error>>

\* Lines 257-258.
Finish ==
    /\ pc = "exit"
    /\ self_w' = w
    /\ self_constraints_' = constraints
    /\ assigned' = assigned \cup {"w", "constraints_"}
    /\ pc' = "done"
    /\ UNCHANGED <<config_vars, arg_vars, constraints, w, iteration, loss_curve,
                   objective_curve, fanout_vars, agg_vars, reject_reason, solution,
                   solver_calls, alphas, old_solution, inference_calls, error>>

Next ==
    \/ FitStart
    \/ LoopHead
    \/ \E i \in 1..MaxSamples : FindConstraint(i)
    \/ Join
    \/ Check
    \/ TracerBadContinue
    \/ TracerBadQuit
    \/ SolveQP
    \/ RetryQP
    \/ TracerQPContinue
    \/ TracerQPQuit
    \/ QPRecord
    \/ Finish

Spec == Init /\ [][Next]_vars

\* ------------------------------------------------------------------ claims
Rejections == {"slack", "duplicate", "bad_inference"}

Stopped == {"tracer_bad", "exit", "done", "raised"}

Solving == {"qp", "qp_retry", "tracer_qp", "qp_done"}

\* C1: once the checker has rejected the working constraint of an iteration
\* (in the step that rejects and in every later step of the fit call) the store
\* is not extended, the solver is not called, no search of the finder runs and
\* fit is on its way out of the loop; and a fit that starts from an empty
\* store, accepts the constraint of its first iteration and is stopped by
\* slack < 1e-5 in its second ends with exactly one stored constraint.
C1_RejectStep ==
    reject_reason' \in Rejections =>
        /\ constraints' = constraints
        /\ solver_calls' = solver_calls
        /\ inference_calls' = inference_calls
        /\ pc' \in Stopped

C1_Scenario ==
    (pc = "done" /\ warm = <<>> /\ iteration = 1 /\ reject_reason = "slack")
        => (Len(constraints) = 1 /\ Len(self_constraints_) = 1)

C1_RejectionStopsLoop == [][C1_RejectStep]_vars /\ []C1_Scenario

C1_Witness ==
    /\ pc = "done" /\ warm = <<>> /\ iteration = 1 /\ reject_reason = "slack"
    /\ Len(self_constraints_) = 1 /\ inference_calls = 2 * n_pairs

\* C2: when the outputs of the new working constraint, unwrapped, are
\* element-wise identical to the outputs of a constraint of the store, the
\* check rejects, fit leaves the loop and the store is not extended; a
\* constraint whose QP is being solved is no duplicate of an earlier one.
C2_Identical(ys, old_ys) ==
    /\ Len(ys) = Len(old_ys)
    /\ \A k \in 1..Len(ys) : ys[k].label = old_ys[k].label

C2_DuplicateStep ==
    (pc = "check" /\ \E j \in 1..Len(constraints) : C2_Identical(Ys, constraints[j].Ys))
        => /\ reject_reason' \in {"slack", "duplicate"}
           /\ constraints' = constraints
           /\ pc' = "exit"

C2_NoDuplicateAppended ==
    pc \in Solving =>
        \A j \in 1..(Len(constraints) - 1) :
            ~C2_Identical(constraints[Len(constraints)].Ys, constraints[j].Ys)

C2_DuplicateRejected == [][C2_DuplicateStep]_vars /\ []C2_NoDuplicateAppended

C2_Witness ==
    /\ pc = "exit" /\ reject_reason = "duplicate"
    /\ \E k \in 1..Len(Ys) : Ys[k].pairwise
    /\ \E j \in 1..Len(constraints) :
          C2_Identical(Ys, constraints[j].Ys) /\ Ys # constraints[j].Ys

\* C3: fit terminates: every step of fit lowers a natural-number measure of
\* the work left.  The finder runs only in an iteration numbered below
\* max_iter, with at most max_iter * n inference calls and at most max_iter
\* appended constraints; fit leaves the loop only on a rejection or after
\* exactly max_iter accepted iterations, whatever the objectives recorded.
C3_Round == 9 + MaxSamples

C3_Rank ==
    CASE pc = "new" -> 2 * C3_Round
      [] pc = "loop" -> C3_Round - 1
      [] pc = "fanout" -> 7 + Cardinality(pending)
      [] pc = "check" -> 6
      [] pc = "qp" -> 5
      [] pc = "qp_retry" -> 4
      [] pc = "tracer_qp" -> 3
      [] pc = "qp_done" -> 2
      [] pc = "tracer_bad" -> 2
      [] pc = "exit" -> 1
      [] OTHER -> 0

C3_Measure == (max_iter - iteration) * C3_Round + C3_Rank

C3_Bounds ==
    /\ C3_Measure >= 0
    /\ iteration <= max_iter
    /\ pc \in ({"fanout", "check", "tracer_bad"} \cup Solving) => iteration < max_iter
    /\ inference_calls <= max_iter * n_pairs
    /\ Len(constraints) <= Len(warm) + max_iter
    /\ pc \in {"exit", "done"} =>
          \/ reject_reason \in Rejections
          \/ /\ iteration = max_iter
             /\ Len(constraints) = Len(warm) + max_iter
             /\ Len(objective_curve) = max_iter

DualLen == IF alphas = <<>> THEN 0 ELSE Len(Last(alphas))

\* An iteration's constraint is in the store and its QP is not solved yet
\* (also when the debugger was quit in the middle of the solve).
MidSolve == pc \in Solving \/ (pc = "raised" /\ solver_calls > 0)

\* C4 as stated: in every state of a fit call the dual solution has one
\* multiplier per constraint of the store.
C4_DualLenAlways == pc # "new" => DualLen = Len(constraints)

\* C4, amended: once a QP of this fit call has been solved, the multipliers
\* recorded last are one per constraint of the store, except while the next
\* iteration's constraint is appended and its QP not solved yet, when the store
\* is one longer; before the first solve there are no multipliers at all,
\* whatever the warm start holds; one vector of multipliers is recorded per
\* accepted iteration and old_solution holds the last.
C4_DualLenAfterSolve ==
    /\ Len(alphas) = iteration
    /\ Len(constraints) = Len(warm) + iteration + (IF MidSolve THEN 1 ELSE 0)
    /\ alphas = <<>> => (DualLen = 0 /\ old_solution = NoSolution)
    /\ alphas # <<>> =>
          /\ old_solution.x = Last(alphas)
          /\ DualLen = Len(constraints) - (IF MidSolve THEN 1 ELSE 0)

C4_Witness ==
    /\ pc = "loop" /\ warm # <<>> /\ Len(alphas) = 2
    /\ DualLen = 3 /\ Len(constraints) = 3

\* C5: when the solver's answer is not optimal on the first call and on the
\* retry, fit raises a solver failure; a solution that is not optimal is never
\* recorded as the dual solution, so no w is derived from one and no further
\* iteration follows one.
C5_SolverFailureRaised ==
    /\ (solver_calls = 2 /\ solution.status = "unknown")
          => (pc = "raised" /\ error = "SolverFailure")
    /\ old_solution.status # "unknown"

\* C6: the solver is called at most twice per iteration; the second call
\* happens only after an answer that is not optimal and is made on the
\* regularized P; when its answer is optimal, the multipliers recorded, the
\* solution kept and w are those of that answer and fit goes on with the loop.
C6_Calls ==
    /\ solver_calls <= 2
    /\ pc = "qp" => solver_calls = 0
    /\ pc = "qp_retry" =>
          (solver_calls = 1 /\ solution.status # "optimal" /\ solution.eps = 0)
    /\ (pc \in {"qp_done", "tracer_qp"} /\ solver_calls = 2) => solution.eps = 1
    /\ (pc = "qp_done" /\ solver_calls = 1) =>
          (solution.eps = 0 /\ solution.status = "optimal")
    /\ pc = "tracer_qp" => solver_calls = 2

C6_RetriedStep ==
    (pc = "qp_done" /\ solver_calls = 2 /\ solution.status = "optimal") =>
        /\ pc' = "loop"
        /\ Last(alphas') = solution.x
        /\ old_solution' = solution
        /\ old_solution'.eps = 1
        /\ w' = [k \in 1..size_psi |->
                    SumSeq([j \in 1..Len(constraints) |->
                               solution.x[j] * constraints[j].dpsi_mean[k]])]

C6_SingleRetry == [][C6_RetriedStep]_vars /\ []C6_Calls

C6_Witness ==
    /\ pc = "loop" /\ solver_calls = 2
    /\ old_solution.status = "optimal" /\ old_solution.eps = 1
    /\ w # Zeros /\ Len(constraints) = 2

\* C7: when fit is aborted in the solve of iteration k, the store that the
\* caller holds is the one of the last iteration that completed (it lacks the
\* constraint of iteration k), and a fit that returns exposes no w that comes
\* from a failed solve.
C7_AbortKeepsLastGood ==
    /\ (pc = "raised" /\ solver_calls = 2 /\ warm # <<>>)
          => Len(constraints) = Len(warm) + iteration
    /\ (pc = "done" /\ "w" \in assigned) => old_solution.status # "unknown"

\* C8: a fit called with len(X) # len(Y) raises DimensionMismatch before any
\* inference call, and attempts no iteration.
C8_MismatchRaised ==
    (pc # "new" /\ n_samples # Y_len) =>
        /\ inference_calls = 0
        /\ iteration = 0
        /\ pc \notin ({"check", "tracer_bad"} \cup Solving)

\* C9 as stated: with the constructor's defaults, fit never enters the
\* debugger on an inference inconsistency; it leaves the loop with the store
\* as it was.
C9_DefaultRecovers ==
    (check_constraints = DefaultCheckConstraints /\ break_on_bad = DefaultBreakOnBad)
        => /\ pc # "tracer_bad"
           /\ reject_reason = "bad_inference" => pc \in {"exit", "done"}

\* C9, amended: with break_on_bad = False, fit never enters the debugger; on an
\* inference inconsistency it leaves the loop with the store as it was before
\* the iteration, and the w it returns is that of the last QP solve of the call
\* (the zero vector when there was none).
C9_NoBreakRecovers ==
    ~break_on_bad =>
        /\ pc # "tracer_bad"
        /\ reject_reason = "bad_inference" =>
              /\ pc \in {"exit", "done"}
              /\ Len(constraints) = Len(warm) + iteration
              /\ w = IF alphas = <<>> THEN Zeros
                     ELSE [k \in 1..size_psi |->
                             SumSeq([j \in 1..Len(constraints) |->
                                 Last(alphas)[j] * constraints[j].dpsi_mean[k]])]
              /\ pc = "done" => (self_w = w /\ self_constraints_ = constraints)

C9_Witness ==
    /\ ~break_on_bad /\ pc = "done" /\ reject_reason = "bad_inference"
    /\ alphas # <<>> /\ self_w = w /\ w # Zeros

\* C10: every search of a fan-out is given the w that fit holds, w does not
\* change while searches are out, the check and the QP run only when every
\* example's search has returned, and the aggregated constraint is made of
\* example i's result at position i, whatever the order of completion.
C10_Joined ==
    /\ pc = "fanout" =>
          /\ DOMAIN results = (1..n_pairs) \ pending
          /\ \A i \in DOMAIN results : results[i].w = w
    /\ pc \in ({"check", "tracer_bad"} \cup Solving) =>
          /\ pending = {}
          /\ DOMAIN results = 1..n_pairs
          /\ \A i \in 1..n_pairs : results[i].w = w
          /\ Ys = [i \in 1..n_pairs |-> results[i].y_hat]
          /\ dpsi_mean = [k \in 1..size_psi |->
                             SumSeq([i \in 1..n_pairs |-> results[i].delta_psi[k]])]
          /\ loss_mean = SumSeq([i \in 1..n_pairs |-> results[i].loss])
          /\ \A i \in 1..n_pairs : results[i].loss = loss(Y(i), Ys[i].label)

C10_FanOutStep == pc = "fanout" => w' = w

C10_FanOutJoin == [][C10_FanOutStep]_vars /\ []C10_Joined

C10_Witness ==
    /\ pc = "check" /\ order = <<2, 1>> /\ w # Zeros
    /\ Ys[1] # Ys[2]

\* C11: within a fit call every step leaves the store as it was or appends
\* exactly one constraint at its end, and it appends exactly when the checker
\* accepted the working constraint of the iteration (the appended constraint is
\* that working constraint); the store always starts with the warm-start
\* constraints, in their order and unmodified, followed by one constraint per
\* accepted iteration.
C11_AppendStep ==
    pc # "new" =>
        /\ \/ constraints' = constraints
           \/ /\ Len(constraints') = Len(constraints) + 1
              /\ SubSeq(constraints', 1, Len(constraints)) = constraints
              /\ Last(constraints') = Constraint(Ys, dpsi_mean, loss_mean)
        /\ (constraints' # constraints) <=> (pc = "check" /\ reject_reason' = "accept")

C11_WarmKept ==
    pc # "new" =>
        /\ Len(constraints) >= Len(warm)
        /\ SubSeq(constraints, 1, Len(warm)) = warm
        /\ Len(constraints) - Len(warm) \in {iteration, iteration + 1}

C11_AppendOnly == [][C11_AppendStep]_vars /\ []C11_WarmKept

C11_Witness ==
    /\ pc = "done" /\ Len(warm) = 1 /\ Len(constraints) = 3
    /\ constraints[1] = warm[1] /\ iteration = 2

\* The weighted sum of the stored dpsi_mean under the multipliers a: component
\* k of sum_j a[j] * dpsi_mean_j.
C12_WeightedSum(a, cons) ==
    [k \in 1..size_psi |->
        SumSeq([j \in 1..Len(a) |-> a[j] * cons[j].dpsi_mean[k]])]

\* C12: from the start of fit on, w is a vector of dimension size_psi, the
\* zero vector throughout iteration 0, and every search of the finder is given
\* a w of that dimension; the step that ends a QP solve sets w to the sum over
\* the stored constraints of alpha_j * dpsi_mean_j for the multipliers that
\* solve returned (one per stored constraint), and w stays that sum until the
\* next solve.
C12_Dimension ==
    pc # "new" =>
        /\ DOMAIN w = 1..size_psi
        /\ iteration = 0 => w = Zeros
        /\ \A i \in DOMAIN results : DOMAIN results[i].w = 1..size_psi
        /\ \A j \in 1..Len(constraints) : DOMAIN constraints[j].dpsi_mean = 1..size_psi
        /\ alphas # <<>> => w = C12_WeightedSum(Last(alphas), constraints)

C12_SolveStep ==
    pc = "qp_done" =>
        /\ Len(solution.x) = Len(constraints)
        /\ Last(alphas') = solution.x
        /\ w' = C12_WeightedSum(solution.x, constraints)

C12_WeightsFromDual == [][C12_SolveStep]_vars /\ []C12_Dimension

C12_Witness ==
    /\ pc = "fanout" /\ iteration = 2 /\ pending = {}
    /\ \A j \in 1..2 : Last(alphas)[j] > 0
    /\ \A k \in 1..size_psi : w[k] # 0

\* The QP that the solve of accepted iteration k was given: the store as it
\* was then, the warm start and the k constraints accepted so far.
C13_StoreAt(k) == SubSeq(constraints, 1, Len(warm) + k)

\* The gradient of x'Px/2 + q'x at x, numerators over AlphaDen * n * n.
C13_Gradient(qp, x) ==
    [i \in 1..Len(x) |->
        SumSeq([j \in 1..Len(x) |-> qp.P.gram[i][j] * x[j]]) + AlphaDen * n_pairs * qp.q[i]]

\* x is an exact minimiser of the QP over the simplex { x >= 0, sum x = C }:
\* it is feasible and no multiplier in use has a larger partial derivative
\* than any other (the Karush-Kuhn-Tucker conditions, sufficient as P is a
\* Gram matrix).
C13_Minimiser(qp, x) ==
    /\ x \in Feasible(qp.n_constraints)
    /\ LET g == C13_Gradient(qp, x)
       IN  \A i \in 1..Len(x) : x[i] > 0 => \A j \in 1..Len(x) : g[i] <= g[j]

\* Every solve recorded so far was exact: answered on the first call, on the
\* P without regularization, with a minimiser.
C13_ExactSolver ==
    /\ Len(objective_curve) = Len(alphas)
    /\ \A k \in 1..Len(alphas) :
          /\ objective_curve[k].reg = 0
          /\ C13_Minimiser(QP(C13_StoreAt(k), FirstEps), alphas[k])

C14_SlackTooSmall == slack * EpsInv < SlackDen

C14_Duplicate ==
    \E c \in {constraints[j] : j \in 1..Len(constraints)} :
        /\ Len(c.Ys) = Len(Ys)
        /\ \A i \in 1..Len(Ys) : unwrap_pairwise(c.Ys[i]) = unwrap_pairwise(Ys[i])

C14_SlackOld(c) ==
    LET s == c.loss_mean * AlphaDen * n_pairs
                 - SumSeq([k \in 1..size_psi |-> w[k] * c.dpsi_mean[k]])
    IN  IF s > 0 THEN s ELSE 0

C14_OldMoreViolated ==
    \E c \in {constraints[j] : j \in 1..Len(constraints)} :
        (slack - C14_SlackOld(c)) * EpsInv < -SlackDen

C14_Reject ==
    \/ C14_SlackTooSmall
    \/ C14_Duplicate
    \/ check_constraints /\ C14_OldMoreViolated

\* C14: on every input the checker is called with, it rejects exactly when the
\* reference policy does (fit goes on to the QP exactly when the policy
\* accepts, and to the debugger or out of the loop when it rejects), and the
\* return it takes names a clause of the policy that holds; with
\* check_constraints disabled, a constraint that is no duplicate and whose
\* slack is at least 1e-5 is accepted, also when an old constraint is more
\* violated.
C14_CheckStep ==
    pc = "check" =>
        /\ (reject_reason' # "accept") <=> C14_Reject
        /\ (pc' = "qp") <=> ~C14_Reject
        /\ reject_reason' = "slack" => C14_SlackTooSmall
        /\ reject_reason' = "duplicate" => C14_Duplicate
        /\ reject_reason' = "bad_inference" => (check_constraints /\ C14_OldMoreViolated)
        /\ (~check_constraints /\ ~C14_Duplicate /\ ~C14_SlackTooSmall)
              => (reject_reason' = "accept" /\ pc' = "qp")

C15_CheckerStep ==
    /\ pc \in {"check", "tracer_bad"} =>
          /\ w' = w
          /\ <<Ys, dpsi_mean, loss_mean, slack>>' = <<Ys, dpsi_mean, loss_mean, slack>>
          /\ Len(constraints') >= Len(constraints)
          /\ \A j \in 1..Len(constraints) : constraints'[j] = constraints[j]
          /\ reject_reason' # "accept" => constraints' = constraints
    /\ w' # w => pc \in {"new", "qp_done"}

C15_CheckerReadsOnly == [][C15_CheckerStep]_vars

\* Inside the checker (in its debugger, about to reject) with a store and a w
\* that earlier iterations built.
C15_Witness ==
    /\ pc = "tracer_bad" /\ reject_reason = "bad_inference"
    /\ iteration >= 1 /\ w # Zeros
    /\ Len(constraints) = Len(warm) + iteration

\* C16: as long as fit has completed no QP solve, whatever the warm start
\* holds, w is the zero vector, every search was given the zero vector, the
\* store is the warm start and the solver has not been called (until the first
\* accepted constraint is appended) and no multipliers are recorded; a fit that
\* returns without an accepted iteration (max_iter = 0, or a rejection in the
\* first iteration) returns w = 0 and the warm-start store as given; with
\* max_iter = 0 it also makes no inference call.
C16_BeforeFirstAccept ==
    /\ (pc # "new" /\ iteration = 0) =>
          /\ w = Zeros
          /\ \A i \in DOMAIN results : results[i].w = Zeros
          /\ alphas = <<>> /\ old_solution = NoSolution /\ objective_curve = <<>>
          /\ ~MidSolve => (solver_calls = 0 /\ constraints = warm)
    /\ (pc = "done" /\ iteration = 0) =>
          /\ self_w = Zeros
          /\ self_constraints_ = warm
          /\ "old_solution" \notin assigned
    /\ (pc # "new" /\ max_iter = 0) =>
          /\ pc \in {"loop", "exit", "done"}
          /\ iteration = 0 /\ inference_calls = 0 /\ reject_reason = "none"

C16_Witness ==
    /\ pc = "done" /\ iteration = 0 /\ Len(warm) = 2 /\ max_iter > 0
    /\ reject_reason = "duplicate"
    /\ self_w = Zeros /\ self_constraints_ = warm /\ inference_calls > 0

\* No two constraints of cons record the same labeling for every example
\* (compared without the pairwise wrapping, so all the more as returned).
C17_Distinct(cons) ==
    \A i \in 1..Len(cons) : \A j \in (i + 1)..Len(cons) :
        \E e \in 1..Len(cons[i].Ys) : cons[i].Ys[e].label # cons[j].Ys[e].label

\* C17: when the store that fit was called with holds no two constraints with
\* the same outputs (an empty store in particular), no store reachable during
\* the fit call does.
C17_NoDuplicates ==
    (pc # "new" /\ C17_Distinct(warm)) => C17_Distinct(constraints)

C17_Witness ==
    /\ pc = "done" /\ Len(warm) = 2 /\ C17_Distinct(warm)
    /\ Len(constraints) = 3 /\ C17_Distinct(constraints)
    /\ \E e \in 1..Len(Ys) : constraints[3].Ys[e].pairwise

====
